---- MODULE Spec2Model ----
(***************************************************************************)
(* Model of the palette entry editor of Aseprite                           *)
(* (src/app/commands/cmd_palette_editor.cpp): the handlers of              *)
(* PaletteEntryEditor that edit the selected entries of the system         *)
(* palette, record the change in the undo history of the active document   *)
(* and drive the two-phase redraw timer.                                   *)
(***************************************************************************)
EXTENDS Integers, Sequences, FiniteSets

VARIABLES
  palette,          \* get_current_palette(): the live/system palette
  spritePalette,    \* sprite->palette(frame): the palette committed in the document
  m_fromPalette,    \* palette used for relative changes
  m_relDeltas,      \* std::map<ColorSliders::Channel,int>, absent key = 0
  m_type,           \* app::Color::Type selected in the editor
  slidersMode,      \* m_sliders mode: "Absolute" or "Relative"
  picks,            \* PaletteView::getSelectedEntries
  selectedEntry,    \* PaletteView::getSelectedEntry (-1 = none)
  m_redrawAll,
  m_implantChange,
  m_selfPalChange,
  timerRunning,     \* m_redrawTimer.isRunning()
  undoHistory,      \* executed transactions of the document, oldest first
  docActive,        \* UIContext has an active document with a sprite
  visible,          \* g_window->isVisible()
  obs               \* observation of the run (what the handlers did)

vars == <<palette, spritePalette, m_fromPalette, m_relDeltas, m_type, slidersMode,
          picks, selectedEntry, m_redrawAll, m_implantChange, m_selfPalChange,
          timerRunning, undoHistory, docActive, visible, obs>>

-----------------------------------------------------------------------------
(* Bounds of the model *)

MaxEdits == 3

MaxHistory == 2

-----------------------------------------------------------------------------
(* Integer helpers *)

Min2(a, b) == IF a < b THEN a ELSE b

Max2(a, b) == IF a > b THEN a ELSE b

Abs(x) == IF x < 0 THEN -x ELSE x

\* MID(min, x, max) of base/base.h as used by the editor
MID(lo, x, hi) == Max2(lo, Min2(x, hi))

\* n/d rounded to the nearest integer, n >= 0, d > 0
RoundDiv(n, d) == (2 * n + d) \div (2 * d)

-----------------------------------------------------------------------------
(* Colours.  An RGBA palette entry is [r, g, b, a] with 0..255 channels    *)
(* (doc::rgba).  gfx::Hsv and gfx::Hsl hold doubles; here hue is in whole   *)
(* degrees and saturation, value and lightness in thousandths.              *)

Rgba(r, g, b, a) == [r |-> r, g |-> g, b |-> b, a |-> a]

MaxComponent(r, g, b) == Max2(r, Max2(g, b))

MinComponent(r, g, b) == Min2(r, Min2(g, b))

\* Hue in degrees of an RGB triple whose chroma c is not zero
HueOf(r, g, b) ==
  LET M == MaxComponent(r, g, b)
      c == M - MinComponent(r, g, b)
  IN IF M = r THEN RoundDiv(60 * (g - b) + 360 * c, c) % 360
     ELSE IF M = g THEN RoundDiv(60 * (b - r) + 120 * c, c)
     ELSE RoundDiv(60 * (r - g) + 240 * c, c)

\* gfx::Hsv::Hsv(const Rgb&)
RgbToHsv(r, g, b) ==
  LET M == MaxComponent(r, g, b)
      c == M - MinComponent(r, g, b)
  IN IF c = 0
     THEN [h |-> 0, s |-> 0, v |-> RoundDiv(M * 1000, 255)]
     ELSE [h |-> HueOf(r, g, b),
           s |-> RoundDiv(c * 1000, M),
           v |-> RoundDiv(M * 1000, 255)]

\* The r, g, b of a hue sector given chroma, x and the offset m, all in
\* units of 1/unit; each channel is int(value*255 + 0.5)
SectorRgb(h, chroma, x, m, unit) ==
  LET sector == IF h < 0 THEN -1 ELSE h \div 60
      r0 == IF sector \in {0, 5, 6} THEN chroma ELSE IF sector \in {1, 4} THEN x ELSE 0
      g0 == IF sector \in {1, 2} THEN chroma ELSE IF sector \in {0, 3, 6} THEN x ELSE 0
      b0 == IF sector \in {3, 4} THEN chroma ELSE IF sector \in {2, 5} THEN x ELSE 0
  IN [r |-> RoundDiv(255 * (r0 + m), unit),
      g |-> RoundDiv(255 * (g0 + m), unit),
      b |-> RoundDiv(255 * (b0 + m), unit)]

\* gfx::Rgb::Rgb(const Hsv&)
HsvToRgb(hsv) ==
  LET ramp == 60 - Abs((hsv.h % 120) - 60)
  IN SectorRgb(hsv.h, hsv.v * hsv.s, (hsv.v * hsv.s * ramp) \div 60,
               hsv.v * 1000 - hsv.v * hsv.s, 1000000)

\* gfx::Hsl::Hsl(const Rgb&)
RgbToHsl(r, g, b) ==
  LET M == MaxComponent(r, g, b)
      m == MinComponent(r, g, b)
      c == M - m
  IN IF c = 0
     THEN [h |-> 0, s |-> 0, l |-> RoundDiv((M + m) * 1000, 510)]
     ELSE [h |-> HueOf(r, g, b),
           s |-> Min2(1000, RoundDiv(c * 1000, 255 - Abs(M + m - 255))),
           l |-> RoundDiv((M + m) * 1000, 510)]

\* gfx::Rgb::Rgb(const Hsl&)
HslToRgb(hsl) ==
  LET ramp == 60 - Abs((hsl.h % 120) - 60)
      c == (1000 - Abs(2 * hsl.l - 1000)) * hsl.s
  IN SectorRgb(hsl.h, 2 * c, (c * ramp) \div 30,
               2 * hsl.l * 1000 - c, 2000000)

-----------------------------------------------------------------------------
(* Inputs of the handlers *)

\* The system palette at construction
InitPalette ==
  << Rgba(255, 0, 0, 255), Rgba(200, 100, 50, 128) >>

PaletteSize == Len(InitPalette)

Indices == 0 .. PaletteSize - 1

\* doc::Palette::getEntry(c), entries numbered from 0
Entry(pal, c) == pal[c + 1]

ColorTypes == {"RgbType", "HsvType", "HslType"}

\* ColorSliders::Channel
Channels == {"Red", "Green", "Blue", "Alpha",
             "HsvHue", "HsvSaturation", "HsvValue",
             "HslHue", "HslSaturation", "HslLightness"}

\* The sliders shown for a colour type (m_sliders.setColorType)
ChannelsOf(type) ==
  IF type = "RgbType" THEN {"Red", "Green", "Blue", "Alpha"}
  ELSE IF type = "HsvType" THEN {"HsvHue", "HsvSaturation", "HsvValue", "Alpha"}
  ELSE {"HslHue", "HslSaturation", "HslLightness", "Alpha"}

\* app::Color payloads of the RGB sliders and of the hex entry
PayloadColors == { Rgba(255, 0, 0, 255), Rgba(40, 80, 120, 128) }

\* app::Color payloads of the HSV sliders
HsvPayloads == { [h |-> 120, s |-> 500, v |-> 800, a |-> 255] }

\* app::Color payloads of the HSL sliders
HslPayloads == { [h |-> 240, s |-> 600, l |-> 400, a |-> 64] }

\* The colours ev.color() takes for a colour type
PayloadsOf(type) ==
  IF type = "RgbType" THEN PayloadColors
  ELSE IF type = "HsvType" THEN HsvPayloads
  ELSE HslPayloads

\* Values ev.delta() takes in relative mode
Deltas == {-3, 5, 10}

\* Labels of the other commands of the application
OtherLabels == {"Brush"}

\* Selections the palette view can report: the selected entries and the
\* current entry (-1 when there is none, PaletteSize when it is left over
\* from a larger palette)
Selections ==
  { sel \in [picks : SUBSET Indices, entry : {-1, PaletteSize} \cup Indices] :
      sel.picks = {} \/ sel.entry \in sel.picks }

ZeroDeltas == [ch \in Channels |-> 0]

-----------------------------------------------------------------------------
(* getPicks, lines 816-825 *)

GetPicks(selected, entry) ==
  IF Cardinality(selected) = 0
  THEN IF entry >= 0 /\ entry < PaletteSize THEN {entry} ELSE {}
  ELSE selected

-----------------------------------------------------------------------------
(* setPaletteEntry, lines 477-491 *)

\* Variant: the loop without the test of entries[c]
SetPaletteEntryEvery(pal, entries, color) ==
  [i \in 1 .. Len(pal) |-> Rgba(color.r, color.g, color.b, 255)]

SetPaletteEntry(pal, entries, color) ==
  [i \in 1 .. Len(pal) |->
     IF (i - 1) \in entries
     THEN Rgba(color.r, color.g, color.b, 255)
     ELSE pal[i]]

-----------------------------------------------------------------------------
(* setAbsolutePaletteEntryChannel, lines 493-627 *)

\* The inner switch of the RGB case, lines 527-539: Red has no break and
\* falls through into Green
AbsoluteRgbChannel(src, channel, color) ==
  [r |-> IF channel = "Red" THEN color.r ELSE src.r,
   g |-> IF channel \in {"Red", "Green"} THEN color.g ELSE src.g,
   b |-> IF channel = "Blue" THEN color.b ELSE src.b,
   a |-> IF channel = "Alpha" THEN color.a ELSE src.a]

\* One entry of the loop in the RGB case, lines 516-541
AbsoluteRgb(src, picksCount, channel, color) ==
  IF picksCount = 1
  THEN Rgba(color.r, color.g, color.b, color.a)
  ELSE AbsoluteRgbChannel(src, channel, color)

\* Variant: the case of HsvHue without its break, which falls through into
\* HsvSaturation
AbsoluteHsvHueFallsThrough(src, picksCount, channel, color) ==
  LET own == RgbToHsv(src.r, src.g, src.b)
      hsv == IF picksCount = 1 THEN [h |-> color.h, s |-> color.s, v |-> color.v]
             ELSE [h |-> IF channel = "HsvHue" THEN color.h ELSE own.h,
                   s |-> IF channel \in {"HsvHue", "HsvSaturation"} THEN color.s
                         ELSE own.s,
                   v |-> IF channel = "HsvValue" THEN color.v ELSE own.v]
      rgb == HsvToRgb(hsv)
  IN Rgba(rgb.r, rgb.g, rgb.b,
          IF picksCount = 1 \/ channel = "Alpha" THEN color.a ELSE src.a)

\* One entry of the loop in the HSV case, lines 543-581
AbsoluteHsv(src, picksCount, channel, color) ==
  LET own == RgbToHsv(src.r, src.g, src.b)
      hsv == IF picksCount = 1 THEN [h |-> color.h, s |-> color.s, v |-> color.v]
             ELSE [h |-> IF channel = "HsvHue" THEN color.h ELSE own.h,
                   s |-> IF channel = "HsvSaturation" THEN color.s ELSE own.s,
                   v |-> IF channel = "HsvValue" THEN color.v ELSE own.v]
      rgb == HsvToRgb(hsv)
  IN Rgba(rgb.r, rgb.g, rgb.b,
          IF picksCount = 1 \/ channel = "Alpha" THEN color.a ELSE src.a)

\* One entry of the loop in the HSL case, lines 583-621
AbsoluteHsl(src, picksCount, channel, color) ==
  LET own == RgbToHsl(src.r, src.g, src.b)
      hsl == IF picksCount = 1 THEN [h |-> color.h, s |-> color.s, l |-> color.l]
             ELSE [h |-> IF channel = "HslHue" THEN color.h ELSE own.h,
                   s |-> IF channel = "HslSaturation" THEN color.s ELSE own.s,
                   l |-> IF channel = "HslLightness" THEN color.l ELSE own.l]
      rgb == HslToRgb(hsl)
  IN Rgba(rgb.r, rgb.g, rgb.b,
          IF picksCount = 1 \/ channel = "Alpha" THEN color.a ELSE src.a)

\* Variant: the loop without the test of entries[c] of line 504
SetAbsoluteEveryEntry(pal, entries, type, channel, color) ==
  LET picksCount == Cardinality(entries)
  IN [i \in 1 .. Len(pal) |->
        IF type = "RgbType" THEN AbsoluteRgb(pal[i], picksCount, channel, color)
        ELSE IF type = "HsvType" THEN AbsoluteHsv(pal[i], picksCount, channel, color)
        ELSE AbsoluteHsl(pal[i], picksCount, channel, color)]

SetAbsolutePaletteEntryChannel(pal, entries, type, channel, color) ==
  LET picksCount == Cardinality(entries)
  IN [i \in 1 .. Len(pal) |->
        IF (i - 1) \notin entries THEN pal[i]
        ELSE IF type = "RgbType" THEN AbsoluteRgb(pal[i], picksCount, channel, color)
        ELSE IF type = "HsvType" THEN AbsoluteHsv(pal[i], picksCount, channel, color)
        ELSE AbsoluteHsl(pal[i], picksCount, channel, color)]

-----------------------------------------------------------------------------
(* setRelativePaletteEntryChannel, lines 629-713 *)

\* Variant: the delta of the event added to the stored one
StoreDeltaAdded(deltas, channel, delta) ==
  [deltas EXCEPT ![channel] = deltas[channel] + delta]

\* "Update modified delta", line 635
StoreDelta(deltas, channel, delta) == [deltas EXCEPT ![channel] = delta]

\* The hue wrap of lines 669-670 and 693-694
WrapHue(h) == IF h < 0 THEN h + 360 ELSE IF h > 360 THEN h - 360 ELSE h

\* Variant: the sums of the RGB case without MID
RelativeRgbUnclamped(src, deltas) ==
  Rgba(src.r + deltas["Red"], src.g + deltas["Green"],
       src.b + deltas["Blue"], src.a + deltas["Alpha"])

\* One entry of the loop in the RGB case, lines 654-659
RelativeRgb(src, deltas) ==
  Rgba(MID(0, src.r + deltas["Red"], 255),
       MID(0, src.g + deltas["Green"], 255),
       MID(0, src.b + deltas["Blue"], 255),
       MID(0, src.a + deltas["Alpha"], 255))

\* One entry of the loop in the HSV case, lines 661-683
RelativeHsv(src, deltas) ==
  LET hsv == RgbToHsv(src.r, src.g, src.b)
      h == WrapHue(hsv.h + deltas["HsvHue"])
      s == hsv.s + 10 * deltas["HsvSaturation"]
      v == hsv.v + 10 * deltas["HsvValue"]
      rgb == HsvToRgb([h |-> MID(0, h, 360), s |-> MID(0, s, 1000), v |-> MID(0, v, 1000)])
  IN Rgba(rgb.r, rgb.g, rgb.b, MID(0, src.a + deltas["Alpha"], 255))

\* One entry of the loop in the HSL case, lines 685-707
RelativeHsl(src, deltas) ==
  LET hsl == RgbToHsl(src.r, src.g, src.b)
      h == WrapHue(hsl.h + deltas["HslHue"])
      s == hsl.s + 10 * deltas["HslSaturation"]
      l == hsl.l + 10 * deltas["HslLightness"]
      rgb == HslToRgb([h |-> h, s |-> MID(0, s, 1000), l |-> MID(0, l, 1000)])
  IN Rgba(rgb.r, rgb.g, rgb.b, MID(0, src.a + deltas["Alpha"], 255))

\* Variant: the source colour read from the system palette
RelativeSourceLive(pal, from, c) == Entry(pal, c)

\* The source colour of the loop, line 646: the entry of m_fromPalette
RelativeSource(pal, from, c) == Entry(from, c)

\* The loop over the palette, lines 640-712, with the deltas already stored
SetRelativePaletteEntryChannel(pal, from, entries, type, deltas) ==
  [i \in 1 .. Len(pal) |->
     IF (i - 1) \notin entries THEN pal[i]
     ELSE IF type = "RgbType" THEN RelativeRgb(RelativeSource(pal, from, i - 1), deltas)
     ELSE IF type = "HsvType" THEN RelativeHsv(RelativeSource(pal, from, i - 1), deltas)
     ELSE RelativeHsl(RelativeSource(pal, from, i - 1), deltas)]

-----------------------------------------------------------------------------
(* updateCurrentSpritePalette, lines 732-783 *)

\* doc::Palette::countDiff: the first and the last index where two palettes
\* of the same size differ, -1 and -1 when they do not differ
CountDiff(current, new) ==
  LET diff == {i \in 1 .. Len(current) : current[i] # new[i]}
  IN IF diff = {} THEN [from |-> -1, to |-> -1]
     ELSE [from |-> (CHOOSE i \in diff : \A j \in diff : i <= j) - 1,
           to |-> (CHOOSE i \in diff : \A j \in diff : i >= j) - 1]

\* Variant: the guard without from >= 0
HasDiffToOnly(from, to) == to >= from

\* The guard of line 749
HasDiff(from, to) == from >= 0 /\ to >= from

\* Variant: a last command seen only from the second transaction on
HasLastExecutedCmdSecond(history) == Len(history) > 1

\* undo->lastExecutedCmd(): the last transaction, or none
HasLastExecutedCmd(history) == Len(history) > 0

\* Variant: the implant condition without the comparison of the labels
MustImplantAnyLabel(implantChange, history, operationName) ==
  implantChange /\ Len(history) > 0

\* The implant condition of lines 754-756
MustImplant(implantChange, history, operationName) ==
  /\ implantChange
  /\ HasLastExecutedCmd(history)
  /\ history[Len(history)].label = operationName

\* Lines 760-761: the SetPalette command is added to the last CmdSequence
ImplantCmd(history) ==
  [history EXCEPT ![Len(history)].cmds = history[Len(history)].cmds + 1]

\* Lines 764-766: a transaction with one SetPalette command is committed
ExecuteTransaction(history, operationName) ==
  Append(history, [label |-> operationName, cmds |-> 1])

\* Lines 734-735: the undo history is only touched with an active document
\* that has a sprite
HasSprite(active) == active

\* What the call does with the undo history:
\*   "nodoc"   no active document or sprite (line 734)
\*   "fail"    a base::Exception is caught (line 770)
\*   "nodiff"  the guard of line 749 is false
\*   "implant" lines 757-761,  "new" lines 764-766
Outcome(operationName, newPalette, fail) ==
  LET d == CountDiff(spritePalette, newPalette)
  IN IF ~HasSprite(docActive) THEN "nodoc"
     ELSE IF fail THEN "fail"
     ELSE IF ~HasDiff(d.from, d.to) THEN "nodiff"
     ELSE IF MustImplant(m_implantChange, undoHistory, operationName) THEN "implant"
     ELSE "new"

Recorded(outcome) == outcome \in {"implant", "new"}

\* Variant: the catch block restores the palette the edit began with
PaletteAfterUpdateRestored(oldPalette, newPalette, outcome) ==
  IF outcome = "fail" THEN oldPalette ELSE newPalette

\* Lines 770-772: the catch block only shows the exception, so the system
\* palette written by the handler before the call stays as it is
PaletteAfterUpdate(oldPalette, newPalette, outcome) == newPalette

\* Variant: the implanted command is added to the sequence and not executed
SpritePaletteAfterNoExecute(outcome, current, newPalette) ==
  IF outcome = "new" THEN newPalette ELSE current

\* Lines 750-766: cmd::SetPalette(sprite, frame, newPalette) is executed by
\* cmd->execute (line 761) or by transaction.execute (line 765)
SpritePaletteAfter(outcome, current, newPalette) ==
  IF Recorded(outcome) THEN newPalette ELSE current

\* newPalette is the system palette after the edit of the same handler
UpdateCurrentSpritePalette(operationName, newPalette, fail) ==
  LET outcome == Outcome(operationName, newPalette, fail)
  IN /\ undoHistory' = IF outcome = "implant" THEN ImplantCmd(undoHistory)
                       ELSE IF outcome = "new"
                       THEN ExecuteTransaction(undoHistory, operationName)
                       ELSE undoHistory
     /\ spritePalette' = SpritePaletteAfter(outcome, spritePalette, newPalette)
     /\ timerRunning' = TRUE
     /\ m_redrawAll' = FALSE
     /\ m_implantChange' = TRUE

-----------------------------------------------------------------------------
(* Observation of the run: what the last handler was and did.  The fields   *)
(* about "the last edit" are those of the most recent call of               *)
(* updateCurrentSpritePalette and of what happened since.                   *)

InitObs ==
  [op |-> "init",        \* the handler that ran last
   nEdits |-> 0,         \* calls of updateCurrentSpritePalette so far
   outcome |-> "none",   \* Outcome of the last edit
   label |-> "none",     \* operationName of the last edit
   channel |-> "none",   \* slider channel of the last edit
   delta |-> 0,          \* ev.delta() of the last edit, when relative
   lenBefore |-> 0,      \* length of the undo history before the last edit
   ticks |-> 0,          \* timer messages since the last edit (at most 2 counted)
   finalized |-> FALSE,  \* the timer took the m_redrawAll branch since the last edit
   broadcasts |-> 0,     \* App::PaletteChange emitted by the timer since the last
                         \* edit (at most 2 counted)
   otherCmd |-> FALSE,   \* another command was executed since the last edit
   recorded |-> FALSE,   \* an edit was recorded since the editor was last idle
   implantBefore |-> FALSE, \* m_implantChange when the last edit began
   closed |-> FALSE,     \* the window was closed since the last edit
   run |-> << >>]        \* the deltas of the relative edits since the relative
                         \* information was reset, when all were on obs.channel

\* The run of relative deltas after a relative edit of a channel
RunAfter(channel, delta) ==
  IF obs.run # << >> /\ obs.channel = channel THEN Append(obs.run, delta)
  ELSE IF m_relDeltas = ZeroDeltas THEN << delta >>
  ELSE << >>

ObserveEdit(op, operationName, channel, delta, outcome) ==
  [op |-> op,
   nEdits |-> obs.nEdits + 1,
   outcome |-> outcome,
   label |-> operationName,
   channel |-> channel,
   delta |-> delta,
   lenBefore |-> Len(undoHistory),
   ticks |-> 0,
   finalized |-> FALSE,
   broadcasts |-> 0,
   otherCmd |-> FALSE,
   recorded |-> obs.recorded \/ Recorded(outcome),
   implantBefore |-> m_implantChange,
   closed |-> FALSE,
   run |-> IF op = "rel" THEN RunAfter(channel, delta) ELSE << >>]

\* A handler that resets or may reset the relative information
ObserveOp(op) == [obs EXCEPT !.op = op, !.run = << >>]

-----------------------------------------------------------------------------
(* resetRelativeInfo, lines 809-814, after which the system palette is pal *)

ResetRelativeInfo(pal) ==
  /\ m_fromPalette' = pal
  /\ m_relDeltas' = ZeroDeltas

\* Variant: onPalChange without the test of m_selfPalChange
PalChangeUpdatesAlways(selfPalChange) == TRUE

\* onPalChange, lines 803-807: the editor updates its widgets, and so resets
\* the relative information, unless the signal is its own
PalChangeUpdates(selfPalChange) == ~selfPalChange

-----------------------------------------------------------------------------
(* State after the constructor, lines 238-305: absolute mode, RGB, the      *)
(* relative information reset by selectColorType(RgbType), timer stopped.   *)

Init ==
  /\ palette = InitPalette
  /\ spritePalette = InitPalette
  /\ m_fromPalette = InitPalette
  /\ m_relDeltas = ZeroDeltas
  /\ m_type = "RgbType"
  /\ slidersMode = "Absolute"
  /\ picks = {}
  /\ selectedEntry = 0
  /\ m_redrawAll = FALSE
  /\ m_implantChange = FALSE
  /\ m_selfPalChange = FALSE
  /\ timerRunning = FALSE
  /\ undoHistory = << >>
  /\ docActive = TRUE
  /\ visible = TRUE
  /\ obs = InitObs

-----------------------------------------------------------------------------
(* Handlers *)

\* onColorSlidersChange in absolute mode, lines 420-431
OnColorSlidersChangeAbsolute(in) ==
  \E channel \in ChannelsOf(m_type) \cap in.channels,
     color \in PayloadsOf(m_type), fail \in in.fails :
    LET entries == GetPicks(picks, selectedEntry)
        newPalette == SetAbsolutePaletteEntryChannel(palette, entries, m_type, channel, color)
    IN /\ visible
       /\ slidersMode = "Absolute"
       /\ obs.nEdits < MaxEdits
       /\ palette' = PaletteAfterUpdate(palette, newPalette, Outcome("Color Change", newPalette, fail))
       /\ UpdateCurrentSpritePalette("Color Change", newPalette, fail)
       /\ obs' = ObserveEdit("abs", "Color Change", channel, 0,
                             Outcome("Color Change", newPalette, fail))
       /\ UNCHANGED <<m_fromPalette, m_relDeltas, m_type, slidersMode, picks,
                      selectedEntry, m_selfPalChange, docActive, visible>>

\* onColorSlidersChange in relative mode, lines 420-431
OnColorSlidersChangeRelative(in) ==
  \E channel \in ChannelsOf(m_type) \cap in.channels,
     delta \in in.deltas, fail \in in.fails :
    LET entries == GetPicks(picks, selectedEntry)
        deltas == StoreDelta(m_relDeltas, channel, delta)
        newPalette == SetRelativePaletteEntryChannel(palette, m_fromPalette, entries,
                                                     m_type, deltas)
    IN /\ visible
       /\ slidersMode = "Relative"
       /\ obs.nEdits < MaxEdits
       /\ m_relDeltas' = deltas
       /\ palette' = PaletteAfterUpdate(palette, newPalette, Outcome("Color Change", newPalette, fail))
       /\ UpdateCurrentSpritePalette("Color Change", newPalette, fail)
       /\ obs' = ObserveEdit("rel", "Color Change", channel, delta,
                             Outcome("Color Change", newPalette, fail))
       /\ UNCHANGED <<m_fromPalette, m_type, slidersMode, picks, selectedEntry,
                      m_selfPalChange, docActive, visible>>

\* onColorHexEntryChange, lines 433-445
OnColorHexEntryChange(in) ==
  \E color \in PayloadColors, fail \in in.fails :
    LET entries == GetPicks(picks, selectedEntry)
        newPalette == SetPaletteEntry(palette, entries, color)
    IN /\ visible
       /\ obs.nEdits < MaxEdits
       /\ palette' = PaletteAfterUpdate(palette, newPalette, Outcome("Color Change", newPalette, fail))
       /\ UpdateCurrentSpritePalette("Color Change", newPalette, fail)
       /\ obs' = ObserveEdit("hex", "Color Change", "none", 0,
                             Outcome("Color Change", newPalette, fail))
       /\ UNCHANGED <<m_fromPalette, m_relDeltas, m_type, slidersMode, picks,
                      selectedEntry, m_selfPalChange, docActive, visible>>

\* Variant: the m_redrawAll branch leaves m_implantChange set
ImplantChangeKept == TRUE

\* Line 355: the value the m_redrawAll branch of the timer gives m_implantChange
ImplantChangeAfterRedrawAll == FALSE

\* Variant: every timer message takes the m_redrawAll branch
RedrawAllBranchAlways(redrawAll) == TRUE

\* Line 353: the condition of the branch that redraws all editors
RedrawAllBranch(redrawAll) == redrawAll

\* Variant: the m_redrawAll branch leaves the timer running
TimerRunningKept == TRUE

\* Line 356, m_redrawTimer.stop(): the timer after the m_redrawAll branch
TimerRunningAfterRedrawAll == FALSE

\* onProcessMessage for a kTimerMessage of m_redrawTimer, lines 348-382.
\* In the m_redrawAll branch PaletteChange is emitted with m_selfPalChange
\* set, and the flag is cleared again before the handler returns.
OnTimerMessage ==
  /\ timerRunning
  /\ IF RedrawAllBranch(m_redrawAll)
     THEN /\ m_redrawAll' = FALSE
          /\ m_implantChange' = ImplantChangeAfterRedrawAll
          /\ timerRunning' = TimerRunningAfterRedrawAll
          /\ IF PalChangeUpdates(TRUE)
             THEN ResetRelativeInfo(palette)
             ELSE UNCHANGED <<m_fromPalette, m_relDeltas>>
          /\ obs' = [obs EXCEPT !.op = "finalize",
                                !.ticks = Min2(2, obs.ticks + 1),
                                !.finalized = TRUE,
                                !.broadcasts = Min2(2, obs.broadcasts + 1),
                                !.recorded = FALSE]
     ELSE /\ m_redrawAll' = TRUE
          /\ obs' = [obs EXCEPT !.op = "redraw", !.ticks = Min2(2, obs.ticks + 1)]
          /\ UNCHANGED <<m_implantChange, timerRunning, m_fromPalette, m_relDeltas>>
  /\ m_selfPalChange' = FALSE
  /\ UNCHANGED <<palette, spritePalette, m_type, slidersMode, picks, selectedEntry,
                 undoHistory, docActive, visible>>

\* onColorTypeClick, lines 447-460, and selectColorType, lines 715-730
OnColorTypeClick(in) ==
  \E type \in in.types :
    /\ visible
    /\ m_type' = type
    /\ ResetRelativeInfo(palette)
    /\ obs' = ObserveOp("env")
    /\ UNCHANGED <<palette, spritePalette, slidersMode, picks, selectedEntry,
                   m_redrawAll, m_implantChange, m_selfPalChange, timerRunning,
                   undoHistory, docActive, visible>>

\* onChangeModeClick, lines 462-475, and updateWidgetsFromSelectedEntries,
\* lines 790-801
OnChangeModeClick ==
  \E mode \in {"Absolute", "Relative"} :
    /\ visible
    /\ slidersMode' = mode
    /\ ResetRelativeInfo(palette)
    /\ obs' = ObserveOp("env")
    /\ UNCHANGED <<palette, spritePalette, m_type, picks, selectedEntry,
                   m_redrawAll, m_implantChange, m_selfPalChange, timerRunning,
                   undoHistory, docActive, visible>>

\* The selection of the palette view changes and the colour bar reports the
\* new foreground/background colour: onFgBgColorChange, lines 398-418.  A
\* colour that is not an index is replaced by the selected entry, and nothing
\* is done when there is none.
OnFgBgColorChange(in) ==
  \E sel \in in.selections, isIndex \in BOOLEAN :
    /\ picks' = sel.picks
    /\ selectedEntry' = sel.entry
    /\ IF ~isIndex /\ sel.entry < 0
       THEN UNCHANGED <<m_fromPalette, m_relDeltas>>
       ELSE ResetRelativeInfo(palette)
    /\ obs' = ObserveOp("env")
    /\ UNCHANGED <<palette, spritePalette, m_type, slidersMode,
                   m_redrawAll, m_implantChange, m_selfPalChange, timerRunning,
                   undoHistory, docActive, visible>>

\* App::PaletteChange emitted by another part of the application:
\* onPalChange, lines 803-807
OnPalChange ==
  /\ IF PalChangeUpdates(m_selfPalChange)
     THEN ResetRelativeInfo(palette)
     ELSE UNCHANGED <<m_fromPalette, m_relDeltas>>
  /\ obs' = ObserveOp("env")
  /\ UNCHANGED <<palette, spritePalette, m_type, slidersMode, picks, selectedEntry,
                 m_redrawAll, m_implantChange, m_selfPalChange, timerRunning,
                 undoHistory, docActive, visible>>

\* The window is closed by the user or by the command in its "switch" or
\* "close" mode (lines 188-192): onCloseWindow, lines 389-396, saves the
\* window position and unchecks the button of the colour bar
OnCloseWindow ==
  /\ visible
  /\ visible' = FALSE
  /\ obs' = [obs EXCEPT !.op = "close", !.closed = TRUE]
  /\ UNCHANGED <<palette, spritePalette, m_fromPalette, m_relDeltas, m_type,
                 slidersMode, picks, selectedEntry, m_redrawAll, m_implantChange,
                 m_selfPalChange, timerRunning, undoHistory, docActive>>

\* PaletteEditorCommand::onExecute in its "open" or "switch" mode on the
\* hidden window, lines 194-222: the window is opened again and setColor,
\* lines 307-346, only loads the widgets
OnExecuteOpen ==
  /\ ~visible
  /\ visible' = TRUE
  /\ obs' = [obs EXCEPT !.op = "open"]
  /\ UNCHANGED <<palette, spritePalette, m_fromPalette, m_relDeltas, m_type,
                 slidersMode, picks, selectedEntry, m_redrawAll, m_implantChange,
                 m_selfPalChange, timerRunning, undoHistory, docActive>>

\* Another command of the application is executed on the active document
\* and becomes undo->lastExecutedCmd()
ExecuteOtherCmd ==
  \E label \in OtherLabels :
    /\ docActive
    /\ Len(undoHistory) < MaxHistory
    /\ undoHistory' = Append(undoHistory, [label |-> label, cmds |-> 1])
    /\ obs' = [obs EXCEPT !.op = "other", !.otherCmd = TRUE]
    /\ UNCHANGED <<palette, spritePalette, m_fromPalette, m_relDeltas, m_type,
                   slidersMode, picks, selectedEntry, m_redrawAll, m_implantChange,
                   m_selfPalChange, timerRunning, docActive, visible>>

\* The active document of the UIContext goes away or comes back
\* (the condition of lines 734-735)
SetActiveDocument ==
  /\ docActive' = ~docActive
  /\ obs' = [obs EXCEPT !.op = "env"]
  /\ UNCHANGED <<palette, spritePalette, m_fromPalette, m_relDeltas, m_type,
                 slidersMode, picks, selectedEntry, m_redrawAll, m_implantChange,
                 m_selfPalChange, timerRunning, undoHistory, visible>>

-----------------------------------------------------------------------------
(* The editor with the undo history of the document: every handler, the     *)
(* other commands of the application and the active document, with the      *)
(* sliders of one colour channel and of alpha.                              *)

UndoInputs ==
  [channels |-> {"Red"},
   deltas |-> {10},
   fails |-> BOOLEAN]

Next ==
  \/ OnColorSlidersChangeAbsolute(UndoInputs)
  \/ OnColorSlidersChangeRelative(UndoInputs)
  \/ OnColorHexEntryChange(UndoInputs)
  \/ OnTimerMessage
  \/ OnChangeModeClick
  \/ ExecuteOtherCmd
  \/ SetActiveDocument

Spec == Init /\ [][Next]_vars

-----------------------------------------------------------------------------
(* The editor alone, on a document that stays active: every slider of every *)
(* colour type, every selection and every relative delta.  The colour type, *)
(* the mode and the selection are those the user chose before the first     *)
(* edit: onColorTypeClick, onChangeModeClick and onFgBgColorChange only set *)
(* them and reset the relative information, which leaves every other        *)
(* variable as the constructor set it.                                      *)

EditInputs ==
  [channels |-> Channels,
   deltas |-> Deltas,
   fails |-> {FALSE}]

InitEdit ==
  /\ palette = InitPalette
  /\ spritePalette = InitPalette
  /\ m_fromPalette = InitPalette
  /\ m_relDeltas = ZeroDeltas
  /\ m_type \in ColorTypes
  /\ slidersMode \in {"Absolute", "Relative"}
  /\ \E sel \in Selections : picks = sel.picks /\ selectedEntry = sel.entry
  /\ m_redrawAll = FALSE
  /\ m_implantChange = FALSE
  /\ m_selfPalChange = FALSE
  /\ timerRunning = FALSE
  /\ undoHistory = << >>
  /\ docActive = TRUE
  /\ visible = TRUE
  /\ obs = InitObs

NextEdit ==
  \/ OnColorSlidersChangeAbsolute(EditInputs)
  \/ OnColorSlidersChangeRelative(EditInputs)
  \/ OnColorHexEntryChange(EditInputs)
  \/ OnPalChange

SpecEdit == InitEdit /\ [][NextEdit]_vars

\* The session of the window: edits of one channel per colour type, the
\* timer, the changes of colour type, mode and selection, and the window
\* closed and opened again
SessionInputs ==
  [channels |-> {"Red", "HsvHue"}, deltas |-> {10}, fails |-> {FALSE},
   types |-> {"RgbType", "HsvType"},
   selections |-> { sel \in Selections : sel.entry = 0 /\ sel.picks # {0} }]

NextSession ==
  \/ OnColorSlidersChangeAbsolute(SessionInputs)
  \/ OnColorSlidersChangeRelative(SessionInputs)
  \/ OnColorHexEntryChange(SessionInputs)
  \/ OnTimerMessage
  \/ OnColorTypeClick(SessionInputs)
  \/ OnChangeModeClick
  \/ OnFgBgColorChange(SessionInputs)
  \/ OnCloseWindow
  \/ OnExecuteOpen

SpecSession == Init /\ [][NextSession]_vars

\* The session on a document that stays active, with the timer of the
\* window delivering its messages for as long as it runs
LiveInputs == [channels |-> {"Red"}, deltas |-> {10}, fails |-> {FALSE}]

NextLive ==
  \/ OnColorSlidersChangeAbsolute(LiveInputs)
  \/ OnColorSlidersChangeRelative(LiveInputs)
  \/ OnColorHexEntryChange(LiveInputs)
  \/ OnTimerMessage
  \/ OnChangeModeClick
  \/ ExecuteOtherCmd

SpecLive == Init /\ [][NextLive]_vars /\ WF_vars(OnTimerMessage)

-----------------------------------------------------------------------------
(* Vocabulary of the properties *)

\* The step is a call of one of the three edit handlers
EditStep == obs'.nEdits = obs.nEdits + 1

\* Index c is one of the picks of an edit: a selected entry or, when no
\* entry is selected, the current entry of the palette view
Picked(c) == c \in picks \/ (picks = {} /\ c = selectedEntry)

PickedIndices == {c \in Indices : Picked(c)}

\* The result of a relative edit of one entry from its baseline colour
RelativeResult(type, src, deltas) ==
  IF type = "RgbType" THEN RelativeRgb(src, deltas)
  ELSE IF type = "HsvType" THEN RelativeHsv(src, deltas)
  ELSE RelativeHsl(src, deltas)

\* The stored deltas after a single relative edit from a fresh reset
SingleDelta(channel, delta) == [ZeroDeltas EXCEPT ![channel] = delta]

LastCmd(history) == history[Len(history)]

-----------------------------------------------------------------------------
\* C1: in absolute mode with the RGB colour space and two or more selected
\* entries, a slider edit of the Red channel changes only the red component
\* of each selected entry: green, blue and alpha keep the entry's own
\* previous values.
C1_RedEditKeepsOtherChannels ==
  [][ (EditStep /\ obs'.op = "abs" /\ m_type = "RgbType" /\ obs'.channel = "Red"
         /\ Cardinality(PickedIndices) >= 2)
      => \A c \in PickedIndices :
           /\ Entry(palette', c).g = Entry(palette, c).g
           /\ Entry(palette', c).b = Entry(palette, c).b
           /\ Entry(palette', c).a = Entry(palette, c).a ]_vars

-----------------------------------------------------------------------------
\* C2: of two consecutive recorded edits (non-empty diff) with the same
\* operation label, with no finalizing tick and no other command between
\* them, the second is implanted into the last transaction: the undo history
\* does not grow, and when the first edit opened a transaction the two edits
\* together add exactly that one transaction.
C2_SecondEditImplanted ==
  [][ (EditStep /\ Recorded(obs'.outcome) /\ Recorded(obs.outcome)
         /\ obs'.label = obs.label /\ ~obs.finalized /\ ~obs.otherCmd)
      => /\ obs'.outcome = "implant"
         /\ Len(undoHistory') = Len(undoHistory)
         /\ LastCmd(undoHistory').label = obs'.label
         /\ LastCmd(undoHistory').cmds = LastCmd(undoHistory).cmds + 1
         /\ (obs.outcome = "new" => Len(undoHistory') = obs.lenBefore + 1) ]_vars

\* Two edits were recorded, one timer message apart, in one transaction
C2_Witness ==
  /\ obs.nEdits = 2
  /\ obs.outcome = "implant"
  /\ undoHistory = << [label |-> "Color Change", cmds |-> 2] >>

-----------------------------------------------------------------------------
\* C3 as stated: when at least one timer message falls between two recorded
\* edits with the same label, the second edit opens a new transaction.
C3_OneTickOpensTransaction ==
  [][ (EditStep /\ Recorded(obs'.outcome) /\ Recorded(obs.outcome)
         /\ obs'.label = obs.label /\ obs.ticks >= 1)
      => obs'.outcome = "new" ]_vars

\* C3 amended: when the finalizing timer message (the second of two
\* consecutive ones with no edit in between) falls between two recorded edits
\* with the same label, the second edit opens a new transaction; with a single
\* timer message and no other command between them it is still implanted.
C3_FinalizeOpensTransaction ==
  [][ (EditStep /\ Recorded(obs'.outcome) /\ Recorded(obs.outcome)
         /\ obs'.label = obs.label)
      => /\ obs.finalized
            => /\ obs'.outcome = "new"
               /\ undoHistory' = Append(undoHistory, [label |-> obs'.label, cmds |-> 1])
         /\ (obs.ticks = 1 /\ ~obs.otherCmd) => obs'.outcome = "implant" ]_vars

\* Two edits were recorded in two transactions of the same label with no
\* other command in the history
C3_Witness ==
  /\ obs.nEdits = 2
  /\ obs.outcome = "new"
  /\ ~obs.implantBefore
  /\ undoHistory = << [label |-> "Color Change", cmds |-> 1],
                      [label |-> "Color Change", cmds |-> 1] >>

-----------------------------------------------------------------------------
\* C4: the first recorded edit (non-empty diff) after the editor is idle
\* (initial state, or after the finalizing timer message) always opens a new
\* transaction, whatever edits with an empty diff, without a document or with
\* an undo failure happened since.
C4_FirstEditOpensTransaction ==
  [][ (EditStep /\ Recorded(obs'.outcome) /\ ~obs.recorded)
      => obs'.outcome = "new" ]_vars

-----------------------------------------------------------------------------
\* C5: an edit is implanted only when the label of the last executed command
\* equals the operation label of the edit; when the last executed command has
\* another label a recorded edit opens a new transaction, also while
\* m_implantChange is set.
C5_ImplantOnlySameLabel ==
  [][ EditStep
      => /\ obs'.outcome = "implant"
            => /\ Len(undoHistory) > 0
               /\ LastCmd(undoHistory).label = obs'.label
         /\ (Recorded(obs'.outcome) /\ Len(undoHistory) > 0
               /\ LastCmd(undoHistory).label # obs'.label)
            => /\ obs'.outcome = "new"
               /\ undoHistory' = Append(undoHistory, [label |-> obs'.label, cmds |-> 1]) ]_vars

\* A command with another label ran between two recorded edits and the second
\* edit, made while m_implantChange was set, opened a transaction of its own
C5_Witness ==
  /\ obs.outcome = "new"
  /\ obs.implantBefore
  /\ Len(undoHistory) = 3
  /\ undoHistory[1].label = "Color Change"
  /\ undoHistory[2].label = "Brush"
  /\ undoHistory[3] = [label |-> "Color Change", cmds |-> 1]

-----------------------------------------------------------------------------
\* C6: when countDiff reports no range between the sprite palette and the
\* system palette (from > to or from < 0), the edit leaves the undo history
\* unchanged.
C6_NoDiffNoTransaction ==
  [][ (EditStep /\ LET d == CountDiff(spritePalette, palette')
                   IN d.from > d.to \/ d.from < 0)
      => undoHistory' = undoHistory ]_vars

\* An edit on the active document found no difference, after a recorded one
C6_Witness ==
  /\ obs.outcome = "nodiff"
  /\ docActive
  /\ Len(undoHistory) > 0
  /\ palette = spritePalette

-----------------------------------------------------------------------------
\* C7 as stated: after the relative deltas +10, +5, -3 on one channel from a
\* freshly reset baseline every selected entry has the value a single +12
\* delta gives.
C7_DeltasAccumulate ==
  obs.run = << 10, 5, -3 >>
  => \A c \in PickedIndices :
       Entry(palette, c) =
         RelativeResult(m_type, Entry(m_fromPalette, c), SingleDelta(obs.channel, 12))

\* C7 amended: after the relative deltas +10, +5, -3 on one channel from a
\* freshly reset baseline every selected entry has the value a single -3
\* delta gives: the delta of an event replaces the stored one.
C7_LastDeltaApplies ==
  obs.run = << 10, 5, -3 >>
  => \A c \in PickedIndices :
       Entry(palette, c) =
         RelativeResult(m_type, Entry(m_fromPalette, c), SingleDelta(obs.channel, -3))

\* The three deltas were delivered and changed a selected entry
C7_Witness ==
  /\ obs.run = << 10, 5, -3 >>
  /\ \E c \in PickedIndices : Entry(palette, c) # Entry(m_fromPalette, c)

-----------------------------------------------------------------------------
\* C8: after a relative edit every selected entry is the result for its
\* baseline colour and the stored deltas, and the same (channel, delta) event
\* delivered twice in a row leaves the system palette as it was after the
\* first.
C8_RelativeFromBaseline ==
  [][ (EditStep /\ obs'.op = "rel")
      => /\ \A c \in PickedIndices :
              Entry(palette', c) =
                RelativeResult(m_type, Entry(m_fromPalette, c), m_relDeltas')
         /\ (obs.op = "rel" /\ obs'.channel = obs.channel /\ obs'.delta = obs.delta)
            => palette' = palette ]_vars

\* The same event was delivered twice and the palette differs from the baseline
C8_Witness ==
  /\ obs.op = "rel"
  /\ Len(obs.run) = 2
  /\ obs.run[1] = obs.run[2]
  /\ \E c \in PickedIndices : Entry(palette, c) # Entry(m_fromPalette, c)

-----------------------------------------------------------------------------
\* C9: every edit handler leaves the entries whose index is not in the picks
\* unchanged and keeps the length of the palette.
C9_UnpickedEntriesUnchanged ==
  [][ EditStep
      => /\ Len(palette') = Len(palette)
         /\ \A c \in Indices : ~Picked(c) => Entry(palette', c) = Entry(palette, c) ]_vars

\* An edit changed the one picked entry and left the other as constructed
C9_Witness ==
  /\ obs.nEdits >= 1
  /\ \E c \in Indices :
       /\ PickedIndices = {c}
       /\ Entry(palette, c) # Entry(InitPalette, c)
       /\ \A d \in Indices \ {c} : Entry(palette, d) = Entry(InitPalette, d)

-----------------------------------------------------------------------------
-----------------------------------------------------------------------------
\* C11 as stated: when the colour type, the mode or the selection is changed
\* while a session is open (an edit was recorded and the timer has not yet
\* finalized it), the next edit that is recorded opens a new transaction
\* and is not implanted.
C11_ResetOpensTransaction ==
  [][ (EditStep /\ obs.op = "env" /\ obs.recorded /\ ~obs.finalized
         /\ Recorded(obs'.outcome))
      => (obs'.outcome = "new" /\ Len(undoHistory') = Len(undoHistory) + 1) ]_vars

-----------------------------------------------------------------------------
\* C12 as stated: closing the window clears m_implantChange, and no edit
\* made after the window was closed is implanted into the command of the
\* session that was open when it closed.
C12_CloseFinalizes ==
  [][ /\ (visible /\ ~visible') => ~m_implantChange'
      /\ (EditStep /\ obs.closed /\ ~obs.finalized) => obs'.outcome # "implant" ]_vars

-----------------------------------------------------------------------------
\* C13 as stated: an edit committed with no active document or sprite
\* records nothing in the undo history, does not start the redraw timer and
\* does not set m_implantChange.
C13_NoDocumentOnlyPalette ==
  [][ (EditStep /\ ~docActive)
      => /\ undoHistory' = undoHistory
         /\ spritePalette' = spritePalette
         /\ timerRunning' = timerRunning
         /\ m_implantChange' = m_implantChange ]_vars

-----------------------------------------------------------------------------
\* The palettes the edit handler op can write into the system palette in
\* the current state, before it calls updateCurrentSpritePalette
EditWrites(op, channel, deltas) ==
  LET entries == GetPicks(picks, selectedEntry)
  IN IF op = "hex"
     THEN { SetPaletteEntry(palette, entries, color) : color \in PayloadColors }
     ELSE IF op = "abs"
     THEN { SetAbsolutePaletteEntryChannel(palette, entries, m_type, channel, color) :
              color \in PayloadsOf(m_type) }
     ELSE { SetRelativePaletteEntryChannel(palette, m_fromPalette, entries,
                                           m_type, deltas) }

\* C14: when the undo layer throws while an edit is recorded, the handler
\* still runs to its end (the timer runs and m_implantChange is set), nothing
\* is recorded, and the system palette is the one the edit wrote: no entry
\* is rolled back.
C14_FailureKeepsLivePalette ==
  [][ (EditStep /\ obs'.outcome = "fail")
      => /\ palette' \in EditWrites(obs'.op, obs'.channel, m_relDeltas')
         /\ undoHistory' = undoHistory
         /\ spritePalette' = spritePalette
         /\ timerRunning'
         /\ m_implantChange' ]_vars

\* An edit failed in the undo layer and the system palette shows its colour,
\* which the palette of the sprite does not have
C14_Witness ==
  /\ obs.outcome = "fail"
  /\ obs.op \in {"abs", "rel", "hex"}
  /\ \E c \in PickedIndices : Entry(palette, c) # Entry(spritePalette, c)
  /\ spritePalette = InitPalette

-----------------------------------------------------------------------------
\* A step of the timer handler: one more timer message since the last edit
TickStep == obs'.ticks = obs.ticks + 1

\* A step that emits App::PaletteChange from the timer handler
BroadcastStep == obs'.broadcasts = obs.broadcasts + 1

\* C15: PaletteChange is broadcast only by a timer message that comes after
\* another timer message with no edit between the two; the first timer
\* message after an edit only asks for the redraw of the current editor
\* (it sets m_redrawAll) and broadcasts nothing.
C15_BroadcastOnlyOnSecondTick ==
  [][ /\ BroadcastStep => (TickStep /\ obs.ticks >= 1 /\ m_redrawAll)
      /\ (TickStep /\ obs.ticks = 0)
           => (obs'.op = "redraw" /\ ~BroadcastStep /\ m_redrawAll'
                 /\ timerRunning' /\ m_implantChange' = m_implantChange) ]_vars

\* The second timer message after an edit has broadcast the change
C15_Witness ==
  /\ obs.op = "finalize"
  /\ obs.nEdits >= 1
  /\ obs.ticks = 2
  /\ obs.broadcasts = 1

-----------------------------------------------------------------------------
\* The session is finalized: the change was broadcast once since the last
\* edit, m_implantChange is cleared and the timer is stopped
Finalized ==
  /\ obs.broadcasts = 1
  /\ ~m_implantChange
  /\ ~timerRunning

\* C16: while the timer keeps delivering its messages, the session of the
\* n-th edit is finalized unless a further edit arrives, and from the second
\* timer message after the last edit on the change has been broadcast
\* exactly once, m_implantChange is cleared and the timer is stopped.
C16_EventuallyFinalized ==
  /\ [](obs.ticks = 2 => Finalized)
  /\ \A n \in 1..MaxEdits :
       (obs.nEdits = n /\ timerRunning) ~> (Finalized \/ obs.nEdits > n)

\* The timer has finalized the session of the last edit the run may make
C16_Witness ==
  /\ obs.nEdits = MaxEdits
  /\ obs.ticks = 2
  /\ Finalized

-----------------------------------------------------------------------------
\* The palette colour of a payload of the given colour type, alpha included
PayloadRgba(type, color) ==
  IF type = "RgbType" THEN Rgba(color.r, color.g, color.b, color.a)
  ELSE LET rgb == IF type = "HsvType" THEN HsvToRgb(color) ELSE HslToRgb(color)
       IN Rgba(rgb.r, rgb.g, rgb.b, color.a)

\* C17 as stated: in absolute mode with exactly one picked entry, a slider
\* edit and a hex edit both replace the entry by the colour of the payload
\* in every channel, alpha included.
C17_SingleEntryTakesPayload ==
  [][ (EditStep /\ obs'.op \in {"abs", "hex"} /\ slidersMode = "Absolute"
         /\ Cardinality(PickedIndices) = 1)
      => \A c \in PickedIndices :
           IF obs'.op = "hex"
           THEN \E color \in PayloadColors :
                  Entry(palette', c) = PayloadRgba("RgbType", color)
           ELSE \E color \in PayloadsOf(m_type) :
                  Entry(palette', c) = PayloadRgba(m_type, color) ]_vars

-----------------------------------------------------------------------------
\* A component of an RGB colour kept within 0..255
Clamp255(x) == IF x < 0 THEN 0 ELSE IF x > 255 THEN 255 ELSE x

\* C18: a relative edit with the RGB colour type stores the delta of the
\* event for its channel and keeps the stored deltas of the other channels,
\* and every picked entry gets, in each of r, g, b and alpha, its baseline
\* value plus the stored delta of that channel, kept within 0..255.  The
\* stored deltas are all 0 after a reset and are changed by nothing but a
\* relative edit, so an untouched channel adds 0 and a channel touched
\* before keeps adding its delta.
C18_RelativeRgbFromStoredDeltas ==
  [][ /\ (EditStep /\ obs'.op = "rel" /\ m_type = "RgbType")
           => /\ \A ch \in Channels :
                   m_relDeltas'[ch] = IF ch = obs'.channel THEN obs'.delta
                                      ELSE m_relDeltas[ch]
              /\ \A c \in PickedIndices :
                   Entry(palette', c) =
                     Rgba(Clamp255(Entry(m_fromPalette, c).r + m_relDeltas'["Red"]),
                          Clamp255(Entry(m_fromPalette, c).g + m_relDeltas'["Green"]),
                          Clamp255(Entry(m_fromPalette, c).b + m_relDeltas'["Blue"]),
                          Clamp255(Entry(m_fromPalette, c).a + m_relDeltas'["Alpha"]))
      /\ (EditStep /\ obs'.op # "rel") => m_relDeltas' = m_relDeltas
      /\ ~EditStep => m_relDeltas' = ZeroDeltas ]_vars

\* A relative edit of Green after one of Red: the picked entry has the red
\* of the earlier edit and the green of this one, and its blue is the
\* baseline's
C18_Witness ==
  /\ obs.op = "rel"
  /\ m_type = "RgbType"
  /\ obs.channel = "Green"
  /\ m_relDeltas["Red"] # 0
  /\ m_relDeltas["Green"] # 0
  /\ m_relDeltas["Blue"] = 0
  /\ \E c \in PickedIndices :
       /\ Entry(palette, c).r # Entry(m_fromPalette, c).r
       /\ Entry(palette, c).g # Entry(m_fromPalette, c).g
       /\ Entry(palette, c).b = Entry(m_fromPalette, c).b

-----------------------------------------------------------------------------
\* The colour of an entry whose hue is replaced: saturation and value are
\* those of the entry's own RGB, and alpha is the entry's
WithHue(src, hue) ==
  LET own == RgbToHsv(src.r, src.g, src.b)
      rgb == HsvToRgb([h |-> hue, s |-> own.s, v |-> own.v])
  IN Rgba(rgb.r, rgb.g, rgb.b, src.a)

\* C19: in absolute mode with the HSV colour type and two or more picked
\* entries, a slider edit of the hue gives every picked entry the hue of the
\* payload with the saturation and value of the entry's own RGB, and leaves
\* its alpha as it was.
C19_HueEditKeepsOwnSaturationValue ==
  [][ (EditStep /\ obs'.op = "abs" /\ m_type = "HsvType"
         /\ obs'.channel = "HsvHue" /\ Cardinality(PickedIndices) >= 2)
      => \E color \in HsvPayloads :
           \A c \in PickedIndices :
             Entry(palette', c) = WithHue(Entry(palette, c), color.h) ]_vars

\* After a hue edit of both entries they still differ from each other, none
\* has the colour of the payload, and each has kept its alpha
C19_Witness ==
  /\ obs.op = "abs"
  /\ obs.nEdits = 1
  /\ m_type = "HsvType"
  /\ obs.channel = "HsvHue"
  /\ PickedIndices = Indices
  /\ Entry(palette, 0) # Entry(palette, 1)
  /\ \A c \in Indices :
       /\ Entry(palette, c) # Entry(InitPalette, c)
       /\ Entry(palette, c).a = Entry(InitPalette, c).a
       /\ \A color \in HsvPayloads :
            Entry(palette, c) # PayloadRgba("HsvType", color)

-----------------------------------------------------------------------------
\* C20: when no entry is selected and the current entry of the palette view
\* is negative or beyond the palette, an edit of any kind picks nothing: the
\* system palette stays as it is, nothing is recorded and the handler runs
\* to its end.
C20_NoPickNoChange ==
  [][ (EditStep /\ picks = {} /\ selectedEntry \notin Indices)
      => /\ GetPicks(picks, selectedEntry) = {}
         /\ palette' = palette
         /\ undoHistory' = undoHistory
         /\ obs'.outcome = "nodiff"
         /\ timerRunning' ]_vars

\* Edits of every kind were made with nothing picked, the current entry
\* beyond the palette, and the palette is as it was
C20_Witness ==
  /\ obs.op = "hex"
  /\ obs.nEdits >= 2
  /\ picks = {}
  /\ selectedEntry = PaletteSize
  /\ palette = InitPalette
  /\ undoHistory = << >>

-----------------------------------------------------------------------------
\* The editor is idle: the timer has finalized the session of the last edit
Idle == obs.finalized

-----------------------------------------------------------------------------
\* C22: when updateCurrentSpritePalette runs with an active sprite and the
\* undo layer does not fail, the palette of the sprite equals the system
\* palette afterwards, whether the change was implanted into the last
\* command, executed in a new transaction or found to be no change.
C22_SpritePaletteIsLivePalette ==
  [][ (EditStep /\ docActive /\ obs'.outcome # "fail")
      => /\ obs'.outcome \in {"implant", "new", "nodiff"}
         /\ spritePalette' = palette' ]_vars

\* An implanted edit has brought the palette of the sprite to the system
\* palette, away from the palette the sprite began with
C22_Witness ==
  /\ obs.outcome = "implant"
  /\ obs.op \in {"abs", "rel", "hex"}
  /\ spritePalette = palette
  /\ spritePalette # InitPalette
  /\ Len(undoHistory) = 1
  /\ LastCmd(undoHistory).cmds >= 2

-----------------------------------------------------------------------------
\* C23: in every reachable state the redraw timer runs exactly when
\* m_implantChange is true, and m_redrawAll is true only while the timer
\* runs.
C23_TimerRunsIffImplantChange ==
  /\ timerRunning <=> m_implantChange
  /\ m_redrawAll => timerRunning

\* After a finalized session and a further edit, the first timer message
\* has set m_redrawAll with the timer running and m_implantChange set
C23_Witness ==
  /\ obs.op = "redraw"
  /\ obs.nEdits >= 2
  /\ m_redrawAll
  /\ timerRunning
  /\ m_implantChange

====
